---- MODULE Spec2Model ----
(***************************************************************************)
(* A model of PlasticGeoDistance (src/PlasticGeoDistance.js): the engine's  *)
(* two fields, its public operations as actions, and the ring search of     *)
(* computeMinimumDistancePoint as a step machine (one step per pass of the  *)
(* inner while loop, one per halving of the radius).                        *)
(*                                                                         *)
(* JavaScript numbers are modelled in fixed point: an angle, a coordinate   *)
(* or a pure ratio x is the integer x * Scale, rounded to nearest after     *)
(* every multiplication and division, as a double is rounded after every    *)
(* operation.  A distance in the instance unit is kept in thousandths of    *)
(* the unit.  NaN is a value of its own that every operation propagates     *)
(* and every comparison answers FALSE on.  The Math functions are computed:  *)
(* range reduction and a polynomial kernel, an exact integer square root.    *)
(***************************************************************************)
EXTENDS Integers, Sequences, FiniteSets, TLC

(***************************************************************************)
(* Numbers                                                                 *)
(***************************************************************************)
Scale == 1000 * 1000
Half == Scale \div 1000
\* a distance of one unit, distances being kept in thousandths
Unit == Scale \div Half
NaN == 0 - 2000 * Scale
IsNaN(x) == x = NaN
Abs(x) == IF x < 0 THEN 0 - x ELSE x
Sign(x) == IF x < 0 THEN 0 - 1 ELSE 1

\* a * b / Scale, rounded to nearest, for a, b >= 0, without leaving 32 bits
MulAbs(a, b) ==
    LET ah == a \div Half
        al == a % Half
        bh == b \div Half
        bl == b % Half
        mid == ah * bl + al * bh
    IN  ah * bh + (mid \div Half)
          + (((mid % Half) * Half + al * bl + (Scale \div 2)) \div Scale)

\* the product a * b of the source
Mul(a, b) ==
    IF IsNaN(a) \/ IsNaN(b) THEN NaN
    ELSE Sign(a) * Sign(b) * MulAbs(Abs(a), Abs(b))

\* a * Scale / b rounded to nearest, for a >= 0, b > 0: long division, two digits at a time
DivAbs(a, b) ==
    LET q0 == a \div b
        r0 == a % b
        q1 == (r0 * 100) \div b
        r1 == (r0 * 100) % b
        q2 == (r1 * 100) \div b
        r2 == (r1 * 100) % b
        q3 == (r2 * 100) \div b
        r3 == (r2 * 100) % b
    IN  q0 * Scale + q1 * 10000 + q2 * 100 + q3 + (IF 2 * r3 >= b THEN 1 ELSE 0)

\* the quotient a / b of the source; x / 0 is an infinity, 0 / 0 is NaN
Infinity == 2000 * Scale
Div(a, b) ==
    IF IsNaN(a) \/ IsNaN(b) THEN NaN
    ELSE IF b = 0 THEN (IF a = 0 THEN NaN ELSE Sign(a) * Infinity)
    ELSE IF Abs(a) \div Abs(b) >= 2000 THEN Sign(a) * Sign(b) * Infinity
    ELSE Sign(a) * Sign(b) * DivAbs(Abs(a), Abs(b))

\* a * n for a whole number n, exact
Times(a, n) == IF IsNaN(a) THEN NaN ELSE a * n

\* a / n for a whole number n (a count, 2, 180), rounded to nearest
DivInt(a, n) ==
    IF IsNaN(a) THEN NaN
    ELSE IF n = 0 THEN (IF a = 0 THEN NaN ELSE Sign(a) * Infinity)
    ELSE Sign(a) * ((2 * Abs(a) + n) \div (2 * n))

Add(a, b) == IF IsNaN(a) \/ IsNaN(b) THEN NaN ELSE a + b
Sub(a, b) == IF IsNaN(a) \/ IsNaN(b) THEN NaN ELSE a - b
\* Math.abs
MathAbs(a) == IF IsNaN(a) THEN NaN ELSE Abs(a)
\* the comparisons of the source: FALSE as soon as one side is NaN
Lt(a, b) == ~IsNaN(a) /\ ~IsNaN(b) /\ a < b
Le(a, b) == ~IsNaN(a) /\ ~IsNaN(b) /\ a <= b
Gt(a, b) == Lt(b, a)
Ge(a, b) == Le(b, a)

\* Math.PI, and the expressions 2 * Math.PI, Math.PI / 2, Math.PI / 4 of the source
PI == 3141592
TwoPi == 2 * PI
HalfPi == DivInt(PI, 2)
QuarterPi == DivInt(PI, 4)

(***************************************************************************)
(* Math.sin, Math.cos                                                      *)
(***************************************************************************)
\* sin y for 0 <= y <= pi/4, y2 its square
SinPoly(y, y2) ==
    MulAbs(y, Scale - DivInt(MulAbs(y2,
              Scale - DivInt(MulAbs(y2,
                  Scale - DivInt(MulAbs(y2, Scale - DivInt(y2, 72)), 42)), 20)), 6))
SinKernel(y) == SinPoly(y, MulAbs(y, y))

\* cos y for 0 <= y <= pi/4, y2 its square
CosPoly(y2) ==
    Scale - DivInt(MulAbs(y2,
                Scale - DivInt(MulAbs(y2,
                    Scale - DivInt(MulAbs(y2, Scale - DivInt(y2, 56)), 30)), 12)), 2)
CosKernel(y) == CosPoly(MulAbs(y, y))

\* the angle x brought into [-pi, pi]
Reduce(x) == ((x + PI) % TwoPi) - PI

\* sin y and cos y for 0 <= y <= pi/2
SinQuadrant(y) == IF y <= QuarterPi THEN SinKernel(y) ELSE CosKernel(HalfPi - y)
CosQuadrant(y) == IF y <= QuarterPi THEN CosKernel(y) ELSE SinKernel(HalfPi - y)

\* sin xr for -pi <= xr <= pi
SinReduced(xr) ==
    Sign(xr) * SinQuadrant(IF Abs(xr) > HalfPi THEN PI - Abs(xr) ELSE Abs(xr))

\* cos y for 0 <= y <= pi
CosReduced(y) ==
    (IF y > HalfPi THEN 0 - 1 ELSE 1) * CosQuadrant(IF y > HalfPi THEN PI - y ELSE y)

MathSin(x) == IF IsNaN(x) THEN NaN ELSE SinReduced(Reduce(x))

MathCos(x) == IF IsNaN(x) THEN NaN ELSE CosReduced(Abs(Reduce(x)))

(***************************************************************************)
(* Wide numbers: <<hi, lo>> is hi + lo / Scale, in units of 1 / Scale: the  *)
(* exact product of two numbers, kept so that a square root resolves small  *)
(* arguments as a double does.                                             *)
(***************************************************************************)
\* the exact product a * b, for 0 <= a, b
MulWide(a, b) ==
    LET ah == a \div Half
        al == a % Half
        bh == b \div Half
        bl == b % Half
        mid == ah * bl + al * bh
        low == (mid % Half) * Half + al * bl
    IN  <<ah * bh + (mid \div Half) + (low \div Scale), low % Scale>>

AddWide(u, v) ==
    <<u[1] + v[1] + ((u[2] + v[2]) \div Scale), (u[2] + v[2]) % Scale>>

LeWide(u, v) == u[1] < v[1] \/ (u[1] = v[1] /\ u[2] <= v[2])

\* u - v, for v <= u
SubWide(u, v) ==
    IF u[2] >= v[2] THEN <<u[1] - v[1], u[2] - v[2]>>
    ELSE <<u[1] - v[1] - 1, Scale + u[2] - v[2]>>

OneWide == <<Scale, 0>>

\* 1 - u, for u <= 1
OneMinusWide(u) ==
    IF u[2] = 0 THEN <<Scale - u[1], 0>> ELSE <<Scale - u[1] - 1, Scale - u[2]>>

\* the largest r in lo..hi with r * r <= n
RECURSIVE RootSearch(_, _, _)
RootSearch(n, lo, hi) ==
    IF lo >= hi THEN lo
    ELSE LET m == (lo + hi + 1) \div 2
         IN  IF m * m <= n THEN RootSearch(n, m, hi) ELSE RootSearch(n, lo, m - 1)

\* the largest d in lo..hi with 2 * Half * r1 * d + d * d <= rem
RECURSIVE DigitSearch(_, _, _, _)
DigitSearch(r1, rem, lo, hi) ==
    IF lo >= hi THEN lo
    ELSE LET m == (lo + hi + 1) \div 2
         IN  IF 2 * Half * r1 * m + m * m <= rem
             THEN DigitSearch(r1, rem, m, hi)
             ELSE DigitSearch(r1, rem, lo, m - 1)

\* the square root r1 * Half + d of the wide number u, given the root r1 of its upper half
SqrtDigits(u, r1) ==
    IF r1 >= Half THEN Scale
    ELSE r1 * Half + DigitSearch(r1, (u[1] - r1 * r1) * Scale + u[2], 0, Half - 1)

\* Math.sqrt of the wide number u, 0 <= u <= 1, rounded down
SqrtWide(u) == SqrtDigits(u, RootSearch(u[1], 0, Half))

(***************************************************************************)
(* Math.atan2, Math.asin                                                   *)
(***************************************************************************)
\* atan u for 0 <= u <= tan(pi/8), u2 its square
AtanPoly(u, u2) ==
    u - MulAbs(u, MulAbs(u2,
            333333 - MulAbs(u2,
                200000 - MulAbs(u2,
                    142857 - MulAbs(u2,
                        111111 - MulAbs(u2, 90909 - MulAbs(u2, 76923)))))))
AtanKernel(u) == AtanPoly(u, MulAbs(u, u))

TanEighthPi == 414214

\* atan t for 0 <= t <= 1
AtanUnit(t) ==
    (IF t <= TanEighthPi THEN 0 ELSE QuarterPi)
      + (IF t <= TanEighthPi THEN 1 ELSE 0 - 1)
          * AtanKernel(IF t <= TanEighthPi THEN t ELSE DivAbs(Scale - t, Scale + t))

\* atan2(ay, ax) for ay, ax >= 0, not both 0
AtanFirstQuadrant(ay, ax) ==
    (IF ay <= ax THEN 0 ELSE HalfPi)
      + (IF ay <= ax THEN 1 ELSE 0 - 1)
          * AtanUnit(DivAbs(IF ay <= ax THEN ay ELSE ax, IF ay <= ax THEN ax ELSE ay))

MathAtan2(y, x) ==
    IF IsNaN(y) \/ IsNaN(x) THEN NaN
    ELSE IF x = 0 /\ y = 0 THEN 0
    ELSE Sign(y) * ((IF x < 0 THEN PI ELSE 0)
                      + (IF x < 0 THEN 0 - 1 ELSE 1) * AtanFirstQuadrant(Abs(y), Abs(x)))

\* Math.asin: NaN outside [-1, 1]
MathAsin(v) ==
    IF IsNaN(v) \/ Abs(v) > Scale THEN NaN
    ELSE MathAtan2(v, SqrtWide(OneMinusWide(MulWide(Abs(v), Abs(v)))))

(***************************************************************************)
(* Conversions (lines 100-138)                                            *)
(***************************************************************************)
toRadians(degrees) == DivInt(Mul(degrees, PI), 180)
\* rad * 180 / Math.PI, the whole turns of PI taken out first so that rad * 180 stays in 32 bits
toDegrees(rad) ==
    IF IsNaN(rad) THEN NaN
    ELSE Sign(rad) * ((Abs(rad) \div PI) * 180 * Scale + DivAbs((Abs(rad) % PI) * 180, PI))
geoToRadians(geo) == [lat |-> toRadians(geo.lat), lng |-> toRadians(geo.lng)]
geoToDegrees(geoR) == [lat |-> toDegrees(geoR.lat), lng |-> toDegrees(geoR.lng)]

(***************************************************************************)
(* The constructor (lines 8-11).  A unit indicator is absent (undefined)   *)
(* or a string, modelled as the sequence of its characters.               *)
(***************************************************************************)
Undefined == [given |-> FALSE, elems |-> <<>>]
\* a string (its characters) or an array (its elements) given as an argument
Given(elems) == [given |-> TRUE, elems |-> elems]
\* the truthiness of a string argument: undefined and "" are falsy
Truthy(arg) == arg.given /\ arg.elems # <<>>
\* a variant of toUpperCase that leaves every character as it is
toUpperCaseMissing(c) == c

toUpperCase(c) ==
    CASE c = "k" -> "K"
      [] c = "m" -> "M"
      [] c = "i" -> "I"
      [] c = "l" -> "L"
      [] c = "o" -> "O"
      [] c = "e" -> "E"
      [] c = "s" -> "S"
      [] OTHER -> c
\* units.toUpperCase().substring(0, 1)
FirstUpper(arg) == toUpperCase(Head(arg.elems))
UnitsOf(arg) == IF Truthy(arg) THEN (IF FirstUpper(arg) = "K" THEN "K" ELSE "M") ELSE "M"
\* the earth radius in thousandths of the unit: 6371 km, 3958.756 miles
KmRadius == 6371000
MileRadius == 3958756
EarthRadiusOf(u) == IF u = "K" THEN KmRadius ELSE MileRadius

(***************************************************************************)
(* radianDistance (lines 91-99): the haversine                            *)
(***************************************************************************)
\* sin^2(dLat/2) + t * sin(dLon/2) where t is cos(pA.lat) cos(pB.lat) sin(dLon/2): the sum
\* a of line 95, kept wide; <<>> when it is below 0
HaversineSum(w1, w2, positive) ==
    IF positive THEN AddWide(w1, w2)
    ELSE IF LeWide(w2, w1) THEN SubWide(w1, w2)
    ELSE <<>>

HaversineTerms(sLat, sLon, t) ==
    HaversineSum(MulWide(Abs(sLat), Abs(sLat)), MulWide(Abs(t), Abs(sLon)),
                 Sign(t) * Sign(sLon) > 0 \/ t = 0 \/ sLon = 0)

HaversineOf(sLat, sLon, cc) == HaversineTerms(sLat, sLon, Mul(cc, sLon))

HaversineA(pA, pB) ==
    HaversineOf(MathSin(DivInt(pB.lat - pA.lat, 2)), MathSin(DivInt(pB.lng - pA.lng, 2)),
                Mul(MathCos(pA.lat), MathCos(pB.lat)))

\* line 98: 2 * Math.atan2(Math.sqrt(a), Math.sqrt(1 - a)), NaN when a is outside [0, 1]
CentralAngle(a) ==
    IF a = <<>> \/ ~LeWide(a, OneWide) THEN NaN
    ELSE 2 * MathAtan2(SqrtWide(a), SqrtWide(OneMinusWide(a)))

radianDistance(pA, pB) ==
    IF IsNaN(pA.lat) \/ IsNaN(pA.lng) \/ IsNaN(pB.lat) \/ IsNaN(pB.lng) THEN NaN
    ELSE CentralAngle(HaversineA(pA, pB))

(***************************************************************************)
(* bounds (lines 21-69), isInBounds (lines 122-126)                        *)
(***************************************************************************)
\* Math.max, Math.min
MathMax(a, b) == IF IsNaN(a) \/ IsNaN(b) THEN NaN ELSE IF a >= b THEN a ELSE b
MathMin(a, b) == IF IsNaN(a) \/ IsNaN(b) THEN NaN ELSE IF a <= b THEN a ELSE b

\* lines 34-37
MIN_LAT == toRadians(0 - 90 * Scale)
MAX_LAT == toRadians(90 * Scale)
MIN_LON == toRadians(0 - 180 * Scale)
MAX_LON == toRadians(180 * Scale)

\* lines 24-31: the rectangle returned for a radius that is NaN or <= 0
DegenerateBounds(pA) ==
    [minLat |-> pA.lat, minLng |-> pA.lng, maxLat |-> pA.lat, maxLng |-> pA.lng]

\* a variant of WrapMaxLon without lines 53-55
KeepMaxLon(maxLon) == maxLon

\* a variant of PoleBounds without the clamping of lines 58-59
PoleBoundsUnclamped(pA, radDist) ==
    [minLng |-> toDegrees(toRadians(0 - 180 * Scale)),
     maxLng |-> toDegrees(toRadians(180 * Scale)),
     minLat |-> toDegrees(Sub(pA.lat, radDist)),
     maxLat |-> toDegrees(Add(pA.lat, radDist))]

\* lines 50-55: a longitude past the antimeridian comes back on the other side
WrapMinLon(minLon) == IF Lt(minLon, MIN_LON) THEN Add(minLon, TwoPi) ELSE minLon
WrapMaxLon(maxLon) == IF Gt(maxLon, MAX_LON) THEN Sub(maxLon, TwoPi) ELSE maxLon

\* lines 47-56, 63-68: neither pole is covered
PlainBounds(pA, radDist, deltaLng) ==
    [minLng |-> toDegrees(WrapMinLon(Sub(pA.lng, deltaLng))),
     maxLng |-> toDegrees(WrapMaxLon(Add(pA.lng, deltaLng))),
     minLat |-> toDegrees(Sub(pA.lat, radDist)),
     maxLat |-> toDegrees(Add(pA.lat, radDist))]

\* lines 57-68: a pole is covered
PoleBounds(pA, radDist) ==
    [minLng |-> toDegrees(MIN_LON),
     maxLng |-> toDegrees(MAX_LON),
     minLat |-> toDegrees(MathMax(Sub(pA.lat, radDist), MIN_LAT)),
     maxLat |-> toDegrees(MathMin(Add(pA.lat, radDist), MAX_LAT))]

\* line 47: the latitude band reaches neither pole
ReachesNoPole(pA, radDist) ==
    Gt(Sub(pA.lat, radDist), MIN_LAT) /\ Lt(Add(pA.lat, radDist), MAX_LAT)

\* line 43: the half width of the rectangle in longitude
DeltaLng(pA, radDist) == MathAsin(Div(MathSin(radDist), MathCos(pA.lat)))

\* lines 38-68, for the center pA in radians and the radius radDist as an angle
BoundsAround(pA, radDist) ==
    IF ReachesNoPole(pA, radDist) THEN PlainBounds(pA, radDist, DeltaLng(pA, radDist))
    ELSE PoleBounds(pA, radDist)

\* bounds of an engine whose earth radius is R
bounds(R, distance, point) ==
    IF IsNaN(distance) \/ distance <= 0 THEN DegenerateBounds(geoToRadians(point))
    ELSE BoundsAround(geoToRadians(point), Div(distance, R))

isInBounds(point, b) ==
    /\ Ge(point.lat, b.minLat) /\ Le(point.lat, b.maxLat)
    /\ IF Gt(b.minLng, b.maxLng)
       THEN Ge(point.lng, b.minLng) \/ Le(point.lng, b.maxLng)
       ELSE Ge(point.lng, b.minLng) /\ Le(point.lng, b.maxLng)

(***************************************************************************)
(* distance (lines 78-86)                                                  *)
(***************************************************************************)
\* line 85
ZeroIfNaN(d) == IF IsNaN(d) THEN 0 ELSE d

\* distance of an engine whose earth radius is R
distance(R, point1, point2) ==
    ZeroIfNaN(Mul(R, radianDistance(geoToRadians(point1), geoToRadians(point2))))

(***************************************************************************)
(* The centering array, the midpoint (lines 142-145, 210-258)             *)
(***************************************************************************)
\* lines 215-221
Cartesian(latr, lngr) ==
    [lat |-> latr, lng |-> lngr,
     x |-> Mul(MathCos(latr), MathCos(lngr)),
     y |-> Mul(MathCos(latr), MathSin(lngr)),
     z |-> MathSin(latr)]

CenteringPoint(p) == Cartesian(toRadians(p.lat), toRadians(p.lng))

toCenteringArray(sourceArray) ==
    [i \in 1..Len(sourceArray) |-> CenteringPoint(sourceArray[i])]

RECURSIVE SumField(_, _, _)
SumField(points, f, n) ==
    IF n = 0 THEN 0 ELSE Add(SumField(points, f, n - 1), points[n][f])

\* Math.sqrt(x * x + y * y)
Hypot(x, y) ==
    IF IsNaN(x) \/ IsNaN(y) THEN NaN
    ELSE SqrtWide(AddWide(MulWide(Abs(x), Abs(x)), MulWide(Abs(y), Abs(y))))

cartesianToRadians(c) ==
    [lng |-> MathAtan2(c.y, c.x), lat |-> MathAtan2(c.z, Hypot(c.x, c.y)),
     x |-> c.x, y |-> c.y, z |-> c.z]

\* a variant of computeAverageCoordinates without the test of line 232
computeAverageCoordinatesUnguarded(points) ==
    cartesianToRadians([x |-> DivInt(SumField(points, "x", Len(points)), Len(points)),
                        y |-> DivInt(SumField(points, "y", Len(points)), Len(points)),
                        z |-> DivInt(SumField(points, "z", Len(points)), Len(points))])

\* lines 230-244: the average of no point is the zero point, nothing is divided
computeAverageCoordinates(points) ==
    IF Len(points) > 0
    THEN cartesianToRadians([x |-> DivInt(SumField(points, "x", Len(points)), Len(points)),
                             y |-> DivInt(SumField(points, "y", Len(points)), Len(points)),
                             z |-> DivInt(SumField(points, "z", Len(points)), Len(points))])
    ELSE [lat |-> 0, lng |-> 0, x |-> 0, y |-> 0, z |-> 0]

computeMidpoint(points) == geoToDegrees(computeAverageCoordinates(toCenteringArray(points)))

(***************************************************************************)
(* The distance sum and the candidate test (lines 263-292)                 *)
(***************************************************************************)
RECURSIVE SumTo(_, _, _)
SumTo(fromPoint, toPoints, n) ==
    IF n = 0 THEN 0
    ELSE Add(SumTo(fromPoint, toPoints, n - 1), radianDistance(fromPoint, toPoints[n]))

sumRadianDistance(fromPoint, toPoints) == SumTo(fromPoint, toPoints, Len(toPoints))

\* a variant of Adopt without the comparison of line 285: every candidate replaces the best
AdoptAlways(cp, dist, result) ==
    [point |-> [lat |-> cp.lat, lng |-> cp.lng], avgDist |-> result.avgDist, totalDist |-> dist]

\* a variant of Adopt with <= for the < of line 285: a candidate that ties replaces the best
AdoptNoWorse(cp, dist, result) ==
    IF Le(dist, result.totalDist)
    THEN [point |-> [lat |-> cp.lat, lng |-> cp.lng],
          avgDist |-> result.avgDist, totalDist |-> dist]
    ELSE result

\* lines 284-289: the candidate cp, whose distance sum is dist, against the best so far
Adopt(cp, dist, result) ==
    IF Lt(dist, result.totalDist)
    THEN [point |-> [lat |-> cp.lat, lng |-> cp.lng],
          avgDist |-> result.avgDist, totalDist |-> dist]
    ELSE result

RECURSIVE TestFrom(_, _, _, _)
TestFrom(candidates, points, result, i) ==
    IF i > Len(candidates) THEN result
    ELSE TestFrom(candidates, points,
                  Adopt(candidates[i], sumRadianDistance(candidates[i], points), result),
                  i + 1)

testCandidateCenterPoints(candidates, points, existingBest) ==
    TestFrom(candidates, points,
             [point |-> [lat |-> existingBest.point.lat, lng |-> existingBest.point.lng],
              avgDist |-> existingBest.avgDist, totalDist |-> existingBest.totalDist],
             1)

(***************************************************************************)
(* destinationPointRadians (lines 297-313)                                 *)
(***************************************************************************)
\* lines 306-311
WrapLng(lat, lng) ==
    [lat |-> lat,
     lng |-> IF Gt(lng, PI) THEN lng - TwoPi ELSE IF Lt(lng, 0 - PI) THEN lng + TwoPi ELSE lng]

\* lines 302-305
OverPole(lat, lng) ==
    IF Gt(MathAbs(lat), HalfPi)
    THEN WrapLng(PI - lat - TwoPi * (IF lat < 0 - HalfPi THEN 1 ELSE 0), Sub(lng, PI))
    ELSE WrapLng(lat, lng)

\* line 300
DestinationLng(start, bearing, dist, lat) ==
    Add(start.lng,
        MathAtan2(Mul(Mul(MathSin(bearing), MathSin(dist)), MathCos(start.lat)),
                  Sub(MathCos(dist), Mul(MathSin(start.lat), MathSin(lat)))))

\* lines 298-299
DestinationLat(start, bearing, dist) ==
    MathAsin(Add(Mul(MathSin(start.lat), MathCos(dist)),
                 Mul(Mul(MathCos(start.lat), MathSin(dist)), MathCos(bearing))))

DestinationFrom(start, bearing, dist, lat) ==
    OverPole(lat, DestinationLng(start, bearing, dist, lat))

destinationPointRadians(start, bearing, dist) ==
    DestinationFrom(start, bearing, dist, DestinationLat(start, bearing, dist))

\* lines 188-192: the ring of 8 candidates around a point
NumBearings == 8
Candidate(dp) == [lat |-> dp.lat, lng |-> dp.lng, x |-> 0, y |-> 0, z |-> 0]
candidatePts(point, testRadius) ==
    [i \in 1..NumBearings |->
        Candidate(destinationPointRadians(point, Times(QuarterPi, i - 1), testRadius))]

(***************************************************************************)
(* Inputs                                                                  *)
(***************************************************************************)
Deg(whole, tenThousandths) == whole * Scale + tenThousandths * 100
Pt(lat, lng) == [lat |-> lat, lng |-> lng]

\* the sample locations of the test suite (src/IgeoInterfaces.ts lines 76-84)
butte == Pt(Deg(46, 38), 0 - Deg(112, 5348))
billings == Pt(Deg(45, 7589), 0 - Deg(108, 4830))
bozeman == Pt(Deg(45, 6751), 0 - Deg(111, 428))
fiji == Pt(0 - Deg(17, 7798), Deg(177, 8037))
amsam == Pt(0 - Deg(14, 2822), 0 - Deg(170, 7314))
mcmurdo == Pt(0 - Deg(77, 8431), Deg(166, 6879))
southnz == Pt(0 - Deg(45, 7854), Deg(168, 5981))
\* a point whose latitude is not a number, one whose longitude is not
NaNLat == Pt(NaN, 0)
NaNLng == Pt(Deg(10, 0), NaN)

\* the point lists computeMinimumDistancePoint, computeMidpoint and distanceToPointList are
\* called with: the windows of at most MaxPoints consecutive points of SearchPoints, the
\* last of which has no latitude
MaxPoints == 3
SearchPoints ==
    <<Pt(0 - Deg(33, 0), Deg(30, 0)), Pt(Deg(9, 0), Deg(5, 0)),
      billings, bozeman, butte,
      Pt(Deg(20, 0), 0 - Deg(70, 0)), Pt(Deg(20, 0), Deg(140, 0)), Pt(0 - Deg(30, 0), Deg(170, 0)),
      fiji, NaNLat>>
PointLists ==
    {SubSeq(SearchPoints, w[1], w[1] + w[2] - 1) :
        w \in {v \in (1..Len(SearchPoints)) \X (0..MaxPoints) :
                   v[1] + v[2] - 1 <= Len(SearchPoints)}}

\* the array arguments: a window, or no array at all
PointArgs == {Undefined} \cup {Given(l) : l \in PointLists}

\* the unit indicators an engine is constructed with
UnitIndicators ==
    {Undefined, Given(<<>>), Given(<<"k">>), Given(<<"K", "i", "l", "o", "m", "e", "t", "e", "r", "s">>),
     Given(<<"M">>), Given(<<"m", "i", "l", "e", "s">>), Given(<<"x">>)}

\* the radii bounds is called with, in thousandths of the unit
Radii == {NaN, 0 - 1000, 0, 100000, 500000, 830000, 850000, 2500000, 7000000}

\* the centers bounds is called with, and the points tested against a rectangle
NorthPole == Pt(Deg(90, 0), 0)
SouthPole == Pt(0 - Deg(90, 0), 0)
Centers ==
    {butte, mcmurdo, southnz, fiji, amsam, NorthPole, SouthPole,
     Pt(0, Deg(180, 0)), Pt(0, 0 - Deg(180, 0)), Pt(0, 0)}
\* the points distanceToPointList measures from
FromPoints == {Pt(0, 0), Pt(Deg(10, 0), 0 - Deg(20, 0))}
TestPoints ==
    {bozeman, billings, mcmurdo, SouthPole, Pt(0 - Deg(17, 0), 0 - Deg(179, 0)), NaNLat, NaNLng}

(***************************************************************************)
(* State                                                                   *)
(***************************************************************************)
VARIABLES
    unitsArg,      \* the argument the constructor was called with
    units,         \* this._units
    earthRadius,   \* this._earthRadius, in thousandths of the unit
    pc,            \* "idle": no call made or the result let go; "returned": the caller holds
                   \* the result; else the place in computeMinimumDistancePoint
    op,            \* the operation called last
    args,          \* its arguments, a record of them by name
    ret,           \* what it returned (a number as [distance |-> d], a boolean as
                   \* [inside |-> b])
    points,        \* computeMinimumDistancePoint: the argument
    pCA,           \* its centering array
    currentBest,   \* the best point so far and its radian-distance sum
    testRadius,    \* the radius of the ring
    r,             \* the index of the for loop
    cbd,           \* <<m, x>>: the number m + x the while loop compares with (m is 200000 or 0)
    rings,         \* history: the rings evaluated at each radius begun, latest last
    radii          \* history: the radii begun, latest last

engine == <<unitsArg, units, earthRadius>>
call == <<op, args, ret>>
locals == <<points, pCA, currentBest, testRadius, r, cbd, rings, radii>>
vars == <<unitsArg, units, earthRadius, pc, op, args, ret,
          points, pCA, currentBest, testRadius, r, cbd, rings, radii>>

NoBest == [point |-> [lat |-> 0, lng |-> 0], avgDist |-> 0, totalDist |-> 0]

\* the locals of computeMinimumDistancePoint before a call
FreshLocals ==
    /\ points' = <<>>
    /\ pCA' = <<>>
    /\ currentBest' = NoBest
    /\ testRadius' = 0
    /\ r' = 0
    /\ cbd' = <<0, 0>>
    /\ rings' = <<>>
    /\ radii' = <<>>

\* new PlasticGeoDistance(units)
Constructed(arg) ==
    /\ unitsArg = arg
    /\ units = UnitsOf(arg)
    /\ earthRadius = EarthRadiusOf(UnitsOf(arg))

Init ==
    /\ \E arg \in UnitIndicators : Constructed(arg)
    /\ pc = "idle"
    /\ op = ""
    /\ args = <<>>
    /\ ret = <<>>
    /\ points = <<>>
    /\ pCA = <<>>
    /\ currentBest = NoBest
    /\ testRadius = 0
    /\ r = 0
    /\ cbd = <<0, 0>>
    /\ rings = <<>>
    /\ radii = <<>>

(***************************************************************************)
(* computeMinimumDistancePoint (lines 165-203)                             *)
(***************************************************************************)
NumRadii == 17
Margin == 200000

\* a variant of WhileTest that holds for the first ring of a radius only
WhileTestFirstRing == cbd[1] # 0

\* a variant of WhileTest with <= for <
WhileTestNoWorse ==
    /\ ~IsNaN(currentBest.totalDist) /\ ~IsNaN(cbd[2])
    /\ IF cbd[1] = 0 THEN currentBest.totalDist <= cbd[2] ELSE TRUE

\* line 187: currentBest.totalDist < cbd
WhileTest == 
    /\ ~IsNaN(currentBest.totalDist) /\ ~IsNaN(cbd[2])
    /\ IF cbd[1] = 0 THEN currentBest.totalDist < cbd[2]
       ELSE (currentBest.totalDist - cbd[2]) \div Scale < cbd[1]

Returns(name, a, value) ==
    /\ pc' = "returned"
    /\ op' = name
    /\ args' = a
    /\ ret' = value

\* lines 175-177: the locals once the centering array ca and its midpoint midPt are known
FirstBest(arg, ca, midPt) ==
    /\ pc' = "seed"
    /\ op' = "computeMinimumDistancePoint"
    /\ args' = [points |-> arg]
    /\ ret' = <<>>
    /\ points' = arg.elems
    /\ pCA' = ca
    /\ currentBest' = [point |-> midPt, avgDist |-> 0,
                       totalDist |-> sumRadianDistance(midPt, ca)]
    /\ testRadius' = 0
    /\ r' = 0
    /\ cbd' = <<0, 0>>
    /\ rings' = <<>>
    /\ radii' = <<>>

Centered(arg, ca) == FirstBest(arg, ca, computeAverageCoordinates(ca))

\* lines 166-168, 172-174: what is returned for no point and for one point
EmptyResult == [point |-> Pt(0, 0), avgDist |-> 0, totalDist |-> 0]
\* a variant of SingleResult that takes the point through radians and back
SingleResultConverted(elems) ==
    [point |-> geoToDegrees(geoToRadians(elems[1])), totalDist |-> 0, avgDist |-> 0]
SingleResult(elems) ==
    [point |-> Pt(elems[1].lat, elems[1].lng), totalDist |-> 0, avgDist |-> 0]

\* lines 165-177: the call, up to the first currentBest
Call(arg) ==
    /\ pc = "idle"
    /\ IF ~arg.given \/ Len(arg.elems) = 0
       THEN /\ Returns("computeMinimumDistancePoint", [points |-> arg], EmptyResult)
            /\ FreshLocals
       ELSE IF Len(arg.elems) = 1
       THEN /\ Returns("computeMinimumDistancePoint", [points |-> arg], SingleResult(arg.elems))
            /\ FreshLocals
       ELSE Centered(arg, toCenteringArray(arg.elems))
    /\ UNCHANGED engine

\* lines 179-184: every input point is tried as the center
Seed ==
    /\ pc = "seed"
    /\ currentBest' = testCandidateCenterPoints(pCA, pCA, currentBest)
    /\ testRadius' = HalfPi
    /\ r' = 0
    /\ pc' = "for"
    /\ UNCHANGED <<engine, call, points, pCA, cbd, rings, radii>>

\* lines 185-186: the for loop enters its body
EnterRadius ==
    /\ pc = "for"
    /\ r < NumRadii
    /\ cbd' = <<Margin, currentBest.totalDist>>
    /\ rings' = Append(rings, 0)
    /\ radii' = Append(radii, testRadius)
    /\ pc' = "while"
    /\ UNCHANGED <<engine, call, points, pCA, currentBest, testRadius, r>>

\* lines 187-195: one pass of the while loop, a ring of candidates
RingRound ==
    /\ pc = "while"
    /\ WhileTest
    /\ cbd' = <<0, currentBest.totalDist>>
    /\ currentBest' = testCandidateCenterPoints(candidatePts(currentBest.point, testRadius),
                                                pCA, currentBest)
    /\ rings' = [rings EXCEPT ![Len(rings)] = @ + 1]
    /\ UNCHANGED <<engine, call, pc, points, pCA, testRadius, r, radii>>

\* lines 187, 196: the while loop ends, the radius is halved
Halve ==
    /\ pc = "while"
    /\ ~WhileTest
    /\ testRadius' = DivInt(testRadius, 2)
    /\ r' = r + 1
    /\ pc' = "for"
    /\ UNCHANGED <<engine, call, points, pCA, currentBest, cbd, rings, radii>>

\* lines 199-201
ResultOf(point, totalDist, n) ==
    [point |-> point, totalDist |-> totalDist, avgDist |-> DivInt(totalDist, n)]

Result(R, best, n) == ResultOf(geoToDegrees(best.point), Mul(best.totalDist, R), n)

Finish ==
    /\ pc = "for"
    /\ r >= NumRadii
    /\ Returns("computeMinimumDistancePoint", args, Result(earthRadius, currentBest, Len(points)))
    /\ UNCHANGED <<engine, locals>>

(***************************************************************************)
(* The other operations, each one step                                     *)
(***************************************************************************)
Bounds(d, p) ==
    /\ pc = "idle"
    /\ Returns("bounds", [distance |-> d, point |-> p], bounds(earthRadius, d, p))
    /\ FreshLocals
    /\ UNCHANGED engine

\* lines 115-118: the rectangle is computed once, the function returned keeps it
GetBoundsCheckFunction(d, p) ==
    /\ pc = "idle"
    /\ Returns("getBoundsCheckFunction", [distance |-> d, point |-> p],
               bounds(earthRadius, d, p))
    /\ FreshLocals
    /\ UNCHANGED engine

\* isInBounds on the rectangle bounds returned last, or the function returned last called
IsInBounds(p) ==
    /\ pc = "returned"
    /\ op \in {"bounds", "getBoundsCheckFunction"}
    /\ Returns("isInBounds", [point |-> p, bounds |-> ret], [inside |-> isInBounds(p, ret)])
    /\ FreshLocals
    /\ UNCHANGED engine

Distance(p1, p2) ==
    /\ pc = "idle"
    /\ Returns("distance", [point1 |-> p1, point2 |-> p2],
               [distance |-> distance(earthRadius, p1, p2)])
    /\ FreshLocals
    /\ UNCHANGED engine

ComputeMidpoint(pts) ==
    /\ pc = "idle"
    /\ Returns("computeMidpoint", [points |-> Given(pts)], computeMidpoint(pts))
    /\ FreshLocals
    /\ UNCHANGED engine

\* lines 146-158
distanceToPointList(R, fromPoint, toPoints) ==
    ResultOf(geoToDegrees(fromPoint),
             Mul(sumRadianDistance(Candidate(geoToRadians(fromPoint)), toCenteringArray(toPoints)),
                 R),
             Len(toPoints))

DistanceToPointList(fromPoint, toPoints) ==
    /\ pc = "idle"
    /\ Returns("distanceToPointList", [fromPoint |-> fromPoint, toPoints |-> toPoints],
               distanceToPointList(earthRadius, fromPoint, toPoints))
    /\ FreshLocals
    /\ UNCHANGED engine

\* the caller lets go of the result; the engine is as it was constructed
Release ==
    /\ pc = "returned"
    /\ pc' = "idle"
    /\ op' = ""
    /\ args' = <<>>
    /\ ret' = <<>>
    /\ FreshLocals
    /\ UNCHANGED engine

Next ==
    \/ \E arg \in PointArgs : Call(arg)
    \/ Seed
    \/ EnterRadius
    \/ RingRound
    \/ Halve
    \/ Finish
    \/ \E d \in Radii, p \in Centers : Bounds(d, p)
    \/ \E d \in Radii, p \in Centers : GetBoundsCheckFunction(d, p)
    \/ \E p \in TestPoints : IsInBounds(p)
    \/ \E p1 \in TestPoints, p2 \in TestPoints : Distance(p1, p2)
    \/ \E pts \in PointLists : ComputeMidpoint(pts)
    \/ \E p \in FromPoints, pts \in PointLists : DistanceToPointList(p, pts)
    \/ Release

Spec == Init /\ [][Next]_vars

\* the control of computeMinimumDistancePoint moves on: what a step of Seed, EnterRadius,
\* Finish, Halve or RingRound does to pc and to the count of rings
control == <<pc, rings>>
Advance ==
    \/ pc = "seed" /\ pc' = "for" /\ rings' = rings
    \/ pc = "for" /\ r < NumRadii /\ pc' = "while" /\ rings' = Append(rings, 0)
    \/ pc = "for" /\ r >= NumRadii /\ pc' = "returned" /\ rings' = rings
    \/ pc = "while" /\ pc' = "for" /\ rings' = rings
    \/ pc = "while" /\ pc' = "while" /\ rings' = [rings EXCEPT ![Len(rings)] = @ + 1]

\* a call runs to its return: its steps follow one another without waiting for anything
FairSpec == Spec /\ WF_control(Advance)

(***************************************************************************)
(* Properties                                                              *)
(***************************************************************************)
\* a GeoPoint: both coordinates are numbers
IsGeoPoint(p) == ~IsNaN(p.lat) /\ ~IsNaN(p.lng)
\* computeMinimumDistancePoint was called with two GeoPoints or more
InSearch ==
    /\ op = "computeMinimumDistancePoint" /\ Len(points) >= 2
    /\ \A i \in 1..Len(points) : IsGeoPoint(points[i])
\* and has returned
Searched == pc = "returned" /\ InSearch

\* the radian-distance sum of the arithmetic midpoint, as line 177 computes it
SeedTotal == sumRadianDistance(computeAverageCoordinates(pCA), pCA)

\* the sum over pts[1..n] of distance(m, pts[i]), for an engine of earth radius R
RECURSIVE DistanceSum(_, _, _, _)
DistanceSum(R, m, pts, n) ==
    IF n = 0 THEN 0 ELSE Add(DistanceSum(R, m, pts, n - 1), distance(R, m, pts[n]))

\* the sum of the distances from computeMidpoint(points) to the points
MidpointTotal == DistanceSum(earthRadius, computeMidpoint(points), points, Len(points))

\* C1, as stated: the totalDist returned is at most the sum of distance() from
\* computeMidpoint(points) to each point.
C1_MidpointTotalBound == Searched => Le(ret.totalDist, MidpointTotal)

\* C1, amended: throughout the search the radian-distance sum of the best point is at
\* most the sum line 177 computed for the arithmetic midpoint, and the totalDist returned
\* is that sum times the earth radius, so at most the midpoint's sum times the earth radius.
C1_NeverWorseThanSeed ==
    InSearch =>
        /\ Le(currentBest.totalDist, SeedTotal)
        /\ pc = "returned" =>
               /\ ret.totalDist = Mul(currentBest.totalDist, earthRadius)
               /\ Le(ret.totalDist, Mul(SeedTotal, earthRadius))

\* a search that returned a total strictly below the midpoint's
C1_Improved == Searched /\ Lt(ret.totalDist, Mul(SeedTotal, earthRadius))

\* the accuracy promised, 0.1 mile or 0.161 kilometer (src/README.md line 53), and a point
\* near the minimizer of the sum of distances to (20, -70), (20, 140), (-30, 170)
Tenth == IF units = "K" THEN (161 * Unit) \div 1000 ELSE Unit \div 10
Probes == {Pt(0 - Deg(16, 5928), Deg(174, 4068))}

\* C2: the point returned lies within 0.1 mile of the minimizer of the sum of distances.
\* The sum changes by at most the number of points times the distance moved, so the sum
\* returned exceeds the sum at any other point by at most 0.1 mile per input point.
C2_WithinTenthOfMinimizer ==
    Searched =>
        \A q \in Probes :
            Le(ret.totalDist - DistanceSum(earthRadius, q, points, Len(points)),
               Len(points) * Tenth)

\* what the call with no point or one point is to return
FewPointsResult(arg) ==
    IF Len(arg.elems) = 0 THEN [point |-> Pt(0, 0), avgDist |-> 0, totalDist |-> 0]
    ELSE [point |-> arg.elems[1], totalDist |-> 0, avgDist |-> 0]

\* C3: computeMinimumDistancePoint with no array, an empty array or one point returns in
\* the step of the call, the zero point or the point itself with zero distances, and
\* leaves the centering array, the best point and the ring search untouched.
C3_FewPointsReturnAtOnce ==
    [][(pc = "idle" /\ op' = "computeMinimumDistancePoint" /\ Len(args'.points.elems) <= 1)
         => (pc' = "returned" /\ ret' = FewPointsResult(args'.points) /\ UNCHANGED locals)]_vars

\* the call with one point has returned it
C3_SinglePointReturned ==
    /\ pc = "returned" /\ op = "computeMinimumDistancePoint"
    /\ Len(args.points.elems) = 1 /\ ret.point = args.points.elems[1]
    /\ pCA = <<>> /\ rings = <<>>

\* C4: the center lies inside the rectangle bounds computes around it, whatever the radius.
C4_CenterInside == (pc = "returned" /\ op = "bounds") => isInBounds(args.point, ret)

\* C5: for a radius that is NaN or <= 0, bounds returns the center, in degrees, on all
\* four edges.
C5_DegenerateInDegrees ==
    (pc = "returned" /\ op = "bounds" /\ (IsNaN(args.distance) \/ args.distance <= 0)) =>
        ret = [minLat |-> args.point.lat, minLng |-> args.point.lng,
               maxLat |-> args.point.lat, maxLng |-> args.point.lng]

\* bounds has returned: its radius as an angle in radians and in degrees, its center in
\* radians, and the half width in longitude of line 43, in degrees
BoundsReturned == pc = "returned" /\ op = "bounds"
CallRadDist == Div(args.distance, earthRadius)
CallRadDistDeg == toDegrees(CallRadDist)
CallDeltaLng == toDegrees(DeltaLng(geoToRadians(args.point), CallRadDist))

\* the latitude band of the call reaches the south pole, the north pole
ReachesSouth == Le(args.point.lat - CallRadDistDeg, 0 - 90 * Scale)
ReachesNorth == Ge(args.point.lat + CallRadDistDeg, 90 * Scale)

\* the circle of the call crosses the antimeridian
SeamCrossed ==
    \/ Lt(args.point.lng - CallDeltaLng, 0 - 180 * Scale)
    \/ Gt(args.point.lng + CallDeltaLng, 180 * Scale)

\* b is a rectangle across the antimeridian
Wraps(b) == Gt(b.minLng, b.maxLng)
InBand(p, b) == Ge(p.lat, b.minLat) /\ Le(p.lat, b.maxLat)
AcrossSeam(p, b) == Ge(p.lng, b.minLng) \/ Le(p.lng, b.maxLng)

\* points at the latitude of the center: on the seam from both sides, on the edges of the
\* rectangle b and next to them, and half way between the edges
SeamPoints(b) ==
    {Pt(args.point.lat, l) :
        l \in {180 * Scale, 0 - 180 * Scale, b.minLng, b.minLng - 1, b.maxLng, b.maxLng + 1,
               (b.minLng + b.maxLng) \div 2, args.point.lng}}

\* C6: when the band reaches no pole and the circle crosses the antimeridian, bounds
\* returns longitudes within [-180, 180] with minLng > maxLng; isInBounds accepts a point
\* of the band exactly when lng >= minLng or lng <= maxLng: the seam is accepted from both
\* sides, a longitude strictly between maxLng and minLng is rejected.
C6_AntimeridianWrap ==
    /\ (BoundsReturned /\ Gt(args.distance, 0) /\ ~ReachesSouth /\ ~ReachesNorth /\ SeamCrossed) =>
          /\ Ge(ret.minLng, 0 - 180 * Scale) /\ Le(ret.minLng, 180 * Scale)
          /\ Ge(ret.maxLng, 0 - 180 * Scale) /\ Le(ret.maxLng, 180 * Scale)
          /\ Wraps(ret)
          /\ \A p \in SeamPoints(ret) : isInBounds(p, ret) <=> AcrossSeam(p, ret)
          /\ isInBounds(Pt(args.point.lat, 180 * Scale), ret)
          /\ isInBounds(Pt(args.point.lat, 0 - 180 * Scale), ret)
          /\ ~isInBounds(Pt(args.point.lat, (ret.minLng + ret.maxLng) \div 2), ret)
    /\ (pc = "returned" /\ op = "isInBounds" /\ Wraps(args.bounds)
          /\ InBand(args.point, args.bounds)) =>
          (ret.inside <=> AcrossSeam(args.point, args.bounds))

\* isInBounds has accepted a point from beyond the seam
C6_AcceptedBeyondSeam ==
    /\ pc = "returned" /\ op = "isInBounds"
    /\ Wraps(args.bounds) /\ args.bounds.minLng > 0 /\ args.point.lng < 0
    /\ ret.inside

\* a and b in degrees differ by no more than the rounding of one angle in radians
Near(a, b) == ~IsNaN(a) /\ ~IsNaN(b) /\ Abs(a - b) <= toDegrees(1)

\* the longitudes the poles are tested at
PoleLngs == {0, 180 * Scale, 0 - 77 * Scale}

\* C7: for a radius > 0 whose band reaches a pole, bounds returns minLng = -180,
\* maxLng = 180, minLat = max(center.lat - d, -90) and maxLat = min(center.lat + d, 90), d
\* the radius as an angle; and, whether or not the band reaches it, a pole is in bounds
\* exactly when the band reaches that pole.
C7_PoleBand ==
    (BoundsReturned /\ Gt(args.distance, 0)) =>
        /\ (ReachesSouth \/ ReachesNorth) =>
              /\ ret.minLng = 0 - 180 * Scale
              /\ ret.maxLng = 180 * Scale
              /\ Near(ret.minLat, MathMax(args.point.lat - CallRadDistDeg, 0 - 90 * Scale))
              /\ Near(ret.maxLat, MathMin(args.point.lat + CallRadDistDeg, 90 * Scale))
              /\ ReachesSouth => ret.minLat = 0 - 90 * Scale
              /\ ReachesNorth => ret.maxLat = 90 * Scale
        /\ \A l \in PoleLngs :
              /\ isInBounds(Pt(0 - 90 * Scale, l), ret) <=> ReachesSouth
              /\ isInBounds(Pt(90 * Scale, l), ret) <=> ReachesNorth

\* bounds has returned a band that reaches the south pole from a center that is not the pole
C7_SouthPoleReached ==
    /\ BoundsReturned /\ Gt(args.distance, 0) /\ ReachesSouth
    /\ args.point.lat > 0 - 90 * Scale
    /\ isInBounds(Pt(0 - 90 * Scale, 0), ret)

\* the unit indicator begins with k or K
BeginsWithK(arg) == arg.given /\ Len(arg.elems) > 0 /\ arg.elems[1] \in {"k", "K"}

\* C8: in every state the unit and the earth radius are those the constructor's argument
\* selects, kilometers and 6371 when it begins with k or K, miles and 3958.756 otherwise,
\* and no step changes them.
C8_RadiusFixed ==
    /\ [](IF BeginsWithK(unitsArg)
          THEN units = "K" /\ earthRadius = 6371 * Unit
          ELSE units = "M" /\ earthRadius = 3958 * Unit + 756)
    /\ [][UNCHANGED <<unitsArg, units, earthRadius>>]_vars

\* an engine constructed with a lower-case k has served a call
C8_KilometersAfterCall ==
    /\ unitsArg = Given(<<"k">>) /\ earthRadius = 6371 * Unit
    /\ pc = "returned" /\ op = "computeMinimumDistancePoint" /\ Len(rings) > 0

\* 2 to the power k
RECURSIVE Pow2(_)
Pow2(k) == IF k = 0 THEN 1 ELSE 2 * Pow2(k - 1)

\* the rings evaluated at the radius under way, and whether the last of them strictly
\* lowered currentBest.totalDist (cbd holds the sum from before it, line 188)
RingsHere == rings[Len(rings)]
Lowered == cbd[1] = 0 /\ Lt(currentBest.totalDist, cbd[2])
\* the step evaluates one more ring at the radius under way
RingAgain == Len(rings') = Len(rings) /\ rings'[Len(rings)] = RingsHere + 1 /\ radii' = radii

\* C9: the search visits 17 radii, pi/2 halved again and again; every radius gets one
\* ring at least; a further ring at the same radius is evaluated if and only if the ring
\* before it strictly lowered currentBest.totalDist; the radius changes only right after
\* a ring that lowered nothing.
C9_RingSchedule ==
    /\ [](InSearch =>
            /\ Len(radii) = Len(rings) /\ Len(radii) <= 17
            /\ pc = "returned" => Len(radii) = 17
            /\ \A k \in 1..Len(radii) :
                  /\ Abs(radii[k] * Pow2(k - 1) - HalfPi) <= Pow2(k - 1)
                  /\ (k < Len(radii) \/ pc \in {"for", "returned"}) => rings[k] >= 1)
    /\ [][(pc = "while" /\ InSearch) =>
            /\ RingsHere = 0 => RingAgain
            /\ RingsHere >= 1 => (RingAgain <=> Lowered)
            /\ testRadius' # testRadius => (RingsHere >= 1 /\ ~Lowered /\ pc' = "for")]_vars

\* a search that evaluated three rings or more at one radius has returned
C9_RepeatedRings == Searched /\ \E k \in 1..Len(rings) : rings[k] >= 3

\* the ring rounds of the radii 1..n
RECURSIVE Rounds(_, _)
Rounds(rs, n) == IF n = 0 THEN 0 ELSE Rounds(rs, n - 1) + rs[n]

DistanceReturned == pc = "returned" /\ op = "distance"
TotalsReturned == pc = "returned" /\ op \in {"computeMinimumDistancePoint", "distanceToPointList"}

\* distance returns a number, and 0 when a coordinate of its points is NaN (line 85)
DistanceNeverNaN ==
    DistanceReturned =>
        /\ ~IsNaN(ret.distance)
        /\ (~IsGeoPoint(args.point1) \/ ~IsGeoPoint(args.point2)) => ret.distance = 0

\* C11: no distance the engine returns is NaN: not the number distance returns, not the
\* totalDist and not the avgDist computeMinimumDistancePoint and distanceToPointList return;
\* where the computation gives NaN, 0 is returned.
C11_NoNaNDistance ==
    /\ DistanceNeverNaN
    /\ TotalsReturned => (~IsNaN(ret.totalDist) /\ ~IsNaN(ret.avgDist))

\* computeMidpoint has returned from a call with an empty array
EmptyMidpoint == pc = "returned" /\ op = "computeMidpoint" /\ args.points.elems = <<>>

\* C12, as stated: computeMidpoint of an empty array divides by the zero count and returns
\* no well-formed point: a coordinate of the result is NaN.
C12_EmptyMidpointUndefined == EmptyMidpoint => (IsNaN(ret.lat) \/ IsNaN(ret.lng))

\* C12, amended: computeMidpoint of an empty array returns the point (0, 0): the average
\* of no point is the zero point of line 231, nothing is divided by the count.
C12_EmptyMidpointZero == EmptyMidpoint => ret = Pt(0, 0)

\* computeMidpoint has returned the zero point for an empty array
C12_EmptyMidpointReturned == EmptyMidpoint /\ ret.lat = 0 /\ ret.lng = 0

\* the radian-distance sum from the best point, and from the input point i, to all input
\* points, as sumRadianDistance computes them
SumFromBest == sumRadianDistance(currentBest.point, pCA)
SumFromInput(i) == sumRadianDistance(pCA[i], pCA)
\* the total distance from the input point i to the input points, as lines 152 and 155
\* compute the totalDist of distanceToPointList
TotalFromInput(i) ==
    Mul(sumRadianDistance(Candidate(geoToRadians(points[i])), toCenteringArray(points)),
        earthRadius)
SamePoint(a, b) == a.lat = b.lat /\ a.lng = b.lng

\* C13: in a search on two points or more, currentBest.totalDist is the radian-distance
\* sum from currentBest.point to the input points; once the seeding step is done it is at
\* most the sum from each input point, and the totalDist returned is at most the total
\* distance from each input point to the set; no step raises it, and a step that leaves
\* it equal leaves the best point as it was: a tie replaces nothing.
C13_BestNeverWorse ==
    /\ [](InSearch =>
            /\ currentBest.totalDist = SumFromBest
            /\ pc # "seed" =>
                  \A i \in 1..Len(pCA) : Le(currentBest.totalDist, SumFromInput(i))
            /\ pc = "returned" =>
                  \A i \in 1..Len(points) : Le(ret.totalDist, TotalFromInput(i)))
    /\ [][(InSearch /\ InSearch') =>
            /\ Le(currentBest'.totalDist, currentBest.totalDist)
            /\ currentBest'.totalDist = currentBest.totalDist =>
                  SamePoint(currentBest'.point, currentBest.point)]_vars

\* the seeding step is done: it lowered the sum below the midpoint's, and an input point
\* whose sum ties with the best is not the best point
C13_TieKept ==
    /\ InSearch /\ pc = "for" /\ r = 0
    /\ Lt(currentBest.totalDist, SeedTotal)
    /\ \E i \in 1..Len(pCA) :
          /\ SumFromInput(i) = currentBest.totalDist
          /\ ~SamePoint(currentBest.point, pCA[i])
====
